---- MODULE Spec2Model ----
(***************************************************************************)
(* A model of swapvec: the spilling container SwapVec (src/src/swapvec.rs), *)
(* the checksummed batch file BatchWriter / BatchReader                     *)
(* (src/src/checkedfile.rs), the compression adapter                        *)
(* (src/src/compression.rs) and the replay iterator SwapVecIter             *)
(* (src/src/swapveciter.rs).                                                *)
(*                                                                         *)
(* Elements are modelled as u8 values; a batch is serialized the way        *)
(* bincode serializes a Vec<u8>: an 8 byte little-endian length followed by *)
(* one byte per element.  The backing file is a sequence of bytes.          *)
(* Every I/O operation of a call (tempfile creation, write_all, flush,      *)
(* seek, read_exact) may fail; the input f of an action names the I/O       *)
(* operation of the call that fails, if any.                                *)
(***************************************************************************)
EXTENDS Integers, Sequences, FiniteSets, TLC

\* ------------------------------------------------------------------ bounds
MaxPush == 4          \* elements inserted in one behaviour
MaxBatch == 2         \* batch_size ranges over 0..MaxBatch
MaxSwapAfter == 2     \* swap_after ranges over 0..MaxSwapAfter
MaxConsume == 2       \* length of one consume() argument
MaxFaults == 1        \* injected I/O failures per behaviour
MaxExtraNext == 1     \* next() calls made after the sequence is exhausted
MaxResets == 1        \* reset() calls per behaviour
MaxPushW == 6         \* elements inserted in one behaviour of SpecWrite
MaxSwapAfterW == 4    \* swap_after ranges over 0..MaxSwapAfterW in SpecWrite

Compressions == {"None", "Lz4", "Custom"}
\* std::io::ErrorKind of a failing write-side and read-side operation
WriteKinds == {"PermissionDenied", "StorageFull"}
ReadKinds == {"Uncategorized"}
\* how much of a failing transfer took place: nothing, one byte, all of it
Parts == {"none", "one", "all"}

\* ----------------------------------------------------------------- helpers
Min(a, b) == IF a < b THEN a ELSE b
Max(a, b) == IF a > b THEN a ELSE b

RECURSIVE Pow256(_)
Pow256(i) == IF i = 0 THEN 1 ELSE 256 * Pow256(i - 1)

\* little-endian encoding of n on w bytes (n is far below 2^31 here)
LE(n, w) == [i \in 1..w |-> IF i <= 3 THEN (n \div Pow256(i - 1)) % 256 ELSE 0]

\* value of a little-endian byte string; 2^24 and above is reported as -1
\* ("larger than any block of the model")
UnLE(bs) ==
    IF \E i \in 1..Len(bs) : i > 3 /\ bs[i] # 0 THEN -1
    ELSE (IF Len(bs) >= 1 THEN bs[1] ELSE 0)
         + (IF Len(bs) >= 2 THEN 256 * bs[2] ELSE 0)
         + (IF Len(bs) >= 3 THEN 65536 * bs[3] ELSE 0)

\* mutant: the batch is staged without being reversed
Reverse_identity(s) == s

Reverse(s) == [i \in 1..Len(s) |-> s[Len(s) + 1 - i]]

\* ------------------------------------------------------------ result values
OkItem(e) == [tag |-> "Ok", v |-> e, err |-> ""]
ErrItem(k) == [tag |-> "Err", v |-> 0, err |-> k]
EndItem == [tag |-> "End", v |-> 0, err |-> ""]

\* impl From<std::io::Error> for SwapVecError
FromIoError(kind) ==
    IF kind = "PermissionDenied" THEN "MissingPermissions" ELSE "Other"

\* ------------------------------------------------------------- fault input
\* at = 0: no I/O operation of the call fails; at = i: the i-th one fails
NoFault == [at |-> 0, kind |-> "StorageFull", part |-> "none"]
PartLen(part, n) == IF part = "none" THEN 0 ELSE IF part = "one" THEN Min(1, n) ELSE n
Fails(f) == f.at = 1
Tick(f) == IF f.at = 0 THEN f ELSE [f EXCEPT !.at = @ - 1]

\* ---------------------------------------------------------- serialization
\* bincode::serialize(&Vec<u8>): u64 length, then the elements
serialize(batch) == LE(Len(batch), 8) \o [i \in 1..Len(batch) |-> batch[i] % 256]

\* bincode::deserialize::<Vec<u8>>: trailing bytes are allowed
deserialize(bytes) ==
    IF Len(bytes) < 8 THEN [ok |-> FALSE, batch |-> <<>>]
    ELSE LET n == UnLE(SubSeq(bytes, 1, 8)) IN
         IF n < 0 \/ Len(bytes) - 8 < n THEN [ok |-> FALSE, batch |-> <<>>]
         ELSE [ok |-> TRUE, batch |-> SubSeq(bytes, 9, 8 + n)]

\* ------------------------------------------------------------- compression
\* lz4_flex::compress_prepend_size on a block shorter than 13 bytes: the
\* u32 size, one token with the literal length, the literals
lz4_compress(block) == LE(Len(block), 4) \o <<16 * Len(block)>> \o block

lz4_decompress(block) ==
    IF Len(block) < 5 THEN [ok |-> FALSE, bytes |-> <<>>]
    ELSE LET size == UnLE(SubSeq(block, 1, 4))
             lits == SubSeq(block, 6, Len(block))
         IN IF block[5] = 16 * Len(lits) /\ size = Len(lits)
            THEN [ok |-> TRUE, bytes |-> lits]
            ELSE [ok |-> FALSE, bytes |-> <<>>]

\* the caller-supplied transform of tests/custom_compression.rs
MyCompression_compress(block) == block

MyCompression_decompress(block) == [ok |-> TRUE, bytes |-> block]

compress(c, block) ==
    IF c = "Lz4" THEN lz4_compress(block)
    ELSE IF c = "Custom" THEN MyCompression_compress(block)
    ELSE block

\* mutant: a block is handed on as stored, whatever the configured compression
decompress_ignores_choice(c, block) == [ok |-> TRUE, bytes |-> block]

decompress(c, block) ==
    IF c = "Lz4" THEN lz4_decompress(block)
    ELSE IF c = "Custom" THEN MyCompression_decompress(block)
    ELSE [ok |-> TRUE, bytes |-> block]

\* ------------------------------------------------------------- checkedfile
RECURSIVE hash_from(_, _)
hash_from(h, bytes) ==
    IF bytes = <<>> THEN h
    ELSE hash_from((31 * h + Head(bytes) + 1) % 65521, Tail(bytes))

\* a stable order-sensitive hash of the bytes and their length
hash_bytes(bytes) == hash_from(Len(bytes), bytes)

NoWriter == [some |-> FALSE, inner |-> <<>>, buf |-> <<>>, batch_infos |-> <<>>]

\* BatchWriter::new over a fresh temporary file
BatchWriter_new == [some |-> TRUE, inner |-> <<>>, buf |-> <<>>, batch_infos |-> <<>>]

\* BufWriter::write_all failing after k bytes of (pending \o buffer), but not
\* all of them, reached the file: pending bytes not written stay pending, the
\* rest of buffer is lost
write_all_failed(w, buffer, part) ==
    LET k == PartLen(part, Len(w.buf) + Len(buffer) - 1) IN
    IF k < Len(w.buf)
    THEN [w EXCEPT !.inner = @ \o SubSeq(w.buf, 1, k),
                   !.buf = SubSeq(w.buf, k + 1, Len(w.buf))]
    ELSE [w EXCEPT !.inner = @ \o w.buf \o SubSeq(buffer, 1, Min(k - Len(w.buf), Len(buffer))),
                   !.buf = <<>>]

\* BufWriter::flush failing after k pending bytes reached the file
flush_failed(w, part) ==
    LET n == PartLen(part, Len(w.buf)) IN
    [w EXCEPT !.inner = @ \o SubSeq(w.buf, 1, n),
              !.buf = SubSeq(w.buf, n + 1, Len(w.buf))]

flush_ok(w) == [w EXCEPT !.inner = @ \o w.buf, !.buf = <<>>]

BatchInfo(buffer) == [hash |-> hash_bytes(buffer), bytes |-> Len(buffer)]

write_batch(w, buffer, f) ==
    IF Fails(f)
    THEN [w |-> write_all_failed(w, buffer, f.part), res |-> FromIoError(f.kind), f |-> Tick(f)]
    ELSE LET w1 == [w EXCEPT !.buf = @ \o buffer,
                             !.batch_infos = Append(@, BatchInfo(buffer))]
             f1 == Tick(f)
         IN IF Fails(f1)
            THEN [w |-> flush_failed(w1, f1.part), res |-> FromIoError(f1.kind), f |-> Tick(f1)]
            ELSE [w |-> flush_ok(w1), res |-> "Ok", f |-> Tick(f1)]

RECURSIVE SumBytes(_)
SumBytes(infos) == IF infos = <<>> THEN 0 ELSE Head(infos).bytes + SumBytes(Tail(infos))

bytes_written(w) == SumBytes(w.batch_infos)

batch_count(w) == Len(w.batch_infos)

\* ----------------------------------------------------------------- swapvec
\* mutant: the batch is drained from the back of the buffer
flush_batch_drains_back(s, cfg, f) ==
    IF ~s.tempfile.some /\ Fails(f)
    THEN [sv |-> s, res |-> FromIoError(f.kind), f |-> Tick(f)]
    ELSE LET w0 == IF s.tempfile.some THEN s.tempfile ELSE BatchWriter_new
             f0 == IF s.tempfile.some THEN f ELSE Tick(f)
             batch == SubSeq(s.vector, Len(s.vector) - cfg.batch_size + 1, Len(s.vector))
             rest == SubSeq(s.vector, 1, Len(s.vector) - cfg.batch_size)
             buffer == serialize(batch)
             compressed == compress(cfg.compression, buffer)
             Written(w) == [sv |-> [tempfile |-> w.w, vector |-> rest], res |-> w.res,
                            f |-> w.f]
         IN Written(write_batch(w0, compressed, f0))

\* mutant: the batch is drained before the file is created
flush_batch_drains_first(s, cfg, f) ==
    IF ~s.tempfile.some /\ Fails(f)
    THEN [sv |-> [s EXCEPT !.vector = SubSeq(@, cfg.batch_size + 1, Len(@))],
          res |-> FromIoError(f.kind), f |-> Tick(f)]
    ELSE LET w0 == IF s.tempfile.some THEN s.tempfile ELSE BatchWriter_new
             f0 == IF s.tempfile.some THEN f ELSE Tick(f)
             batch == SubSeq(s.vector, 1, cfg.batch_size)
             rest == SubSeq(s.vector, cfg.batch_size + 1, Len(s.vector))
             buffer == serialize(batch)
             compressed == compress(cfg.compression, buffer)
             Written(w) == [sv |-> [tempfile |-> w.w, vector |-> rest], res |-> w.res,
                            f |-> w.f]
         IN Written(write_batch(w0, compressed, f0))

\* mutant: the drain removes one element more than the batch holds
flush_batch_drains_more(s, cfg, f) ==
    IF ~s.tempfile.some /\ Fails(f)
    THEN [sv |-> s, res |-> FromIoError(f.kind), f |-> Tick(f)]
    ELSE LET w0 == IF s.tempfile.some THEN s.tempfile ELSE BatchWriter_new
             f0 == IF s.tempfile.some THEN f ELSE Tick(f)
             batch == SubSeq(s.vector, 1, cfg.batch_size)
             rest == SubSeq(s.vector, cfg.batch_size + 2, Len(s.vector))
             buffer == serialize(batch)
             compressed == compress(cfg.compression, buffer)
             Written(w) == [sv |-> [tempfile |-> w.w, vector |-> rest], res |-> w.res,
                            f |-> w.f]
         IN Written(write_batch(w0, compressed, f0))

\* the flush of one batch: creation of the file if absent, drain, write
flush_batch(s, cfg, f) ==
    IF ~s.tempfile.some /\ Fails(f)
    THEN [sv |-> s, res |-> FromIoError(f.kind), f |-> Tick(f)]
    ELSE LET w0 == IF s.tempfile.some THEN s.tempfile ELSE BatchWriter_new
             f0 == IF s.tempfile.some THEN f ELSE Tick(f)
             batch == SubSeq(s.vector, 1, cfg.batch_size)
             rest == SubSeq(s.vector, cfg.batch_size + 1, Len(s.vector))
             buffer == serialize(batch)
             compressed == compress(cfg.compression, buffer)
             Written(w) == [sv |-> [tempfile |-> w.w, vector |-> rest], res |-> w.res,
                            f |-> w.f]
         IN Written(write_batch(w0, compressed, f0))

\* mutant: a batch is flushed only above batch_size + 1 buffered elements
after_push_work_late(s, cfg, f) ==
    IF Len(s.vector) <= cfg.batch_size + 1 THEN [sv |-> s, res |-> "Ok", f |-> f]
    ELSE IF ~s.tempfile.some /\ Len(s.vector) <= cfg.swap_after
    THEN [sv |-> s, res |-> "Ok", f |-> f]
    ELSE flush_batch(s, cfg, f)

\* mutant: swap_after holds back every spill, not only the first one
after_push_work_always_gated(s, cfg, f) ==
    IF Len(s.vector) <= cfg.batch_size THEN [sv |-> s, res |-> "Ok", f |-> f]
    ELSE IF Len(s.vector) <= cfg.swap_after
    THEN [sv |-> s, res |-> "Ok", f |-> f]
    ELSE flush_batch(s, cfg, f)

\* mutant: the first spill is not held back by swap_after
after_push_work_no_swap_gate(s, cfg, f) ==
    IF Len(s.vector) <= cfg.batch_size THEN [sv |-> s, res |-> "Ok", f |-> f]
    ELSE flush_batch(s, cfg, f)

\* mutant: the first spill happens when swap_after is reached, not exceeded
after_push_work_swap_lt(s, cfg, f) ==
    IF Len(s.vector) <= cfg.batch_size THEN [sv |-> s, res |-> "Ok", f |-> f]
    ELSE IF ~s.tempfile.some /\ Len(s.vector) < cfg.swap_after
    THEN [sv |-> s, res |-> "Ok", f |-> f]
    ELSE flush_batch(s, cfg, f)

\* mutant: a batch is flushed as soon as batch_size elements are buffered
after_push_work_batch_lt(s, cfg, f) ==
    IF Len(s.vector) < cfg.batch_size THEN [sv |-> s, res |-> "Ok", f |-> f]
    ELSE IF ~s.tempfile.some /\ Len(s.vector) <= cfg.swap_after
    THEN [sv |-> s, res |-> "Ok", f |-> f]
    ELSE flush_batch(s, cfg, f)

after_push_work(s, cfg, f) ==
    IF Len(s.vector) <= cfg.batch_size THEN [sv |-> s, res |-> "Ok", f |-> f]
    ELSE IF ~s.tempfile.some /\ Len(s.vector) <= cfg.swap_after
    THEN [sv |-> s, res |-> "Ok", f |-> f]
    ELSE flush_batch(s, cfg, f)

\* mutant: the spill check runs twice
push_checks_twice(s, cfg, element, f) ==
    LET Again(a) == IF a.res # "Ok" THEN a ELSE after_push_work(a.sv, cfg, a.f)
    IN Again(after_push_work([s EXCEPT !.vector = Append(@, element)], cfg, f))

push(s, cfg, element, f) ==
    after_push_work([s EXCEPT !.vector = Append(@, element)], cfg, f)

\* consume, from the k-th element of the iterator on; taken is the number of
\* elements taken from the iterator when the call returns
RECURSIVE consume_from(_, _, _, _, _)
consume_from(s, cfg, elements, k, f) ==
    IF k > Len(elements) THEN [sv |-> s, res |-> "Ok", f |-> f, taken |-> k - 1]
    ELSE LET Checked(a) ==
                 IF a.res # "Ok" THEN [sv |-> a.sv, res |-> a.res, f |-> a.f, taken |-> k]
                 ELSE consume_from(a.sv, cfg, elements, k + 1, a.f)
             Pushed(p) ==
                 IF p.res # "Ok" THEN [sv |-> p.sv, res |-> p.res, f |-> p.f, taken |-> k]
                 ELSE Checked(after_push_work(p.sv, cfg, p.f))
         IN Pushed(push(s, cfg, elements[k], f))

consume(s, cfg, elements, f) == consume_from(s, cfg, elements, 1, f)

written_to_file(s) == s.tempfile.some

\* mutant: the query reports the number of batches, not their bytes
file_size_counts_batches(s) ==
    IF s.tempfile.some THEN [some |-> TRUE, v |-> batch_count(s.tempfile)]
    ELSE [some |-> FALSE, v |-> 0]

file_size(s) ==
    IF s.tempfile.some THEN [some |-> TRUE, v |-> bytes_written(s.tempfile)]
    ELSE [some |-> FALSE, v |-> 0]

batches_written(s) == IF s.tempfile.some THEN batch_count(s.tempfile) ELSE 0



\* ------------------------------------------------------- checkedfile, read
NoReader == [some |-> FALSE, inner |-> <<>>, pos |-> 0, batch_infos |-> <<>>,
             batch_index |-> 0]

\* impl TryFrom<BatchWriter<T>> for BatchReader<T>: into_inner flushes the
\* pending bytes, then the file is rewound
try_from(w, f) ==
    IF Fails(f) THEN [ok |-> FALSE, r |-> NoReader, kind |-> f.kind, f |-> Tick(f)]
    ELSE LET f1 == Tick(f) IN
         IF Fails(f1) THEN [ok |-> FALSE, r |-> NoReader, kind |-> f1.kind, f |-> Tick(f1)]
         ELSE [ok |-> TRUE,
               r |-> [some |-> TRUE, inner |-> w.inner \o w.buf, pos |-> 0,
                      batch_infos |-> w.batch_infos, batch_index |-> 0],
               kind |-> "", f |-> Tick(f1)]

\* mutant: the index cursor is reset but the file is not rewound
BatchReader_reset_keeps_pos(r, f) ==
    IF Fails(f)
    THEN [ok |-> FALSE, kind |-> f.kind, f |-> Tick(f), r |-> r]
    ELSE [ok |-> TRUE, kind |-> "", f |-> Tick(f), r |-> [r EXCEPT !.batch_index = 0]]

\* mutant: the file is rewound but the index cursor is kept
BatchReader_reset_keeps_index(r, f) ==
    IF Fails(f)
    THEN [ok |-> FALSE, kind |-> f.kind, f |-> Tick(f),
          r |-> [r EXCEPT !.pos = IF f.part = "none" THEN @ ELSE 0]]
    ELSE [ok |-> TRUE, kind |-> "", f |-> Tick(f), r |-> [r EXCEPT !.pos = 0]]

\* BatchReader::reset
BatchReader_reset(r, f) ==
    IF Fails(f)
    THEN [ok |-> FALSE, kind |-> f.kind, f |-> Tick(f),
          r |-> [r EXCEPT !.pos = IF f.part = "none" THEN @ ELSE 0]]
    ELSE [ok |-> TRUE, kind |-> "", f |-> Tick(f),
          r |-> [r EXCEPT !.pos = 0, !.batch_index = 0]]

\* BatchReader::read_batch.  res is "None" (index exhausted), "Some" or the
\* SwapVecError; mismatch reports the outcome of the hash comparison, which
\* the code computes and then ignores.
BatchReader_read_batch(r, f) ==
    LET r1 == [r EXCEPT !.batch_index = @ + 1] IN
    IF r.batch_index >= Len(r.batch_infos)
    THEN [r |-> r1, res |-> "None", bytes |-> <<>>, mismatch |-> FALSE, f |-> f]
    ELSE LET batch_info == r.batch_infos[r.batch_index + 1]
             avail == Len(r.inner) - r.pos
         IN IF Fails(f)
            THEN [r |-> [r1 EXCEPT !.pos = @ + PartLen(f.part, Min(batch_info.bytes, avail))],
                  res |-> FromIoError(f.kind), bytes |-> <<>>, mismatch |-> FALSE,
                  f |-> Tick(f)]
            ELSE IF batch_info.bytes > avail
            THEN [r |-> [r1 EXCEPT !.pos = Len(r.inner)],
                  res |-> FromIoError("UnexpectedEof"), bytes |-> <<>>,
                  mismatch |-> FALSE, f |-> Tick(f)]
            ELSE LET buffer == SubSeq(r.inner, r.pos + 1, r.pos + batch_info.bytes) IN
                 [r |-> [r1 EXCEPT !.pos = @ + batch_info.bytes],
                  res |-> "Some", bytes |-> buffer,
                  mismatch |-> hash_bytes(buffer) # batch_info.hash, f |-> Tick(f)]

\* ------------------------------------------------------------- swapveciter
NoError == [some |-> FALSE, kind |-> ""]

NoIter == [new_error |-> NoError, current_batch_rev |-> <<>>, tempfile |-> NoReader,
           last_elements |-> <<>>, last_elements_index |-> 0]

\* SwapVecIter::new
SwapVecIter_new(tempfile_written, last_elements, f) ==
    LET Converted(c) ==
            IF c.ok
            THEN [it |-> [NoIter EXCEPT !.tempfile = c.r, !.last_elements = last_elements],
                  f |-> c.f]
            ELSE [it |-> [NoIter EXCEPT !.new_error = [some |-> TRUE, kind |-> c.kind],
                                        !.last_elements = last_elements],
                  f |-> c.f]
    IN IF ~tempfile_written.some
       THEN [it |-> [NoIter EXCEPT !.last_elements = last_elements], f |-> f]
       ELSE Converted(try_from(tempfile_written, f))

\* VecDequeIndex::get
get(value, i) ==
    IF i < Len(value) THEN [some |-> TRUE, v |-> value[i + 1]] ELSE [some |-> FALSE, v |-> 0]

\* SwapVecIter::read_batch.  res is "None", "Some" or the SwapVecError
read_batch(i, cfg, f) ==
    IF ~i.tempfile.some
    THEN [it |-> i, res |-> "None", batch |-> <<>>, mismatch |-> FALSE, f |-> f]
    ELSE IF i.new_error.some
    THEN [it |-> [i EXCEPT !.new_error = NoError], res |-> FromIoError(i.new_error.kind),
          batch |-> <<>>, mismatch |-> FALSE, f |-> f]
    ELSE LET Deserialized(b, i1, d) ==
                 IF ~d.ok
                 THEN [it |-> i1, res |-> "SerializationFailed", batch |-> <<>>,
                       mismatch |-> b.mismatch, f |-> b.f]
                 ELSE [it |-> i1, res |-> "Some", batch |-> d.batch,
                       mismatch |-> b.mismatch, f |-> b.f]
             Decompressed(b, i1, decompressed) ==
                 IF ~decompressed.ok
                 THEN [it |-> i1, res |-> "Decompression", batch |-> <<>>,
                       mismatch |-> b.mismatch, f |-> b.f]
                 ELSE Deserialized(b, i1, deserialize(decompressed.bytes))
             Read(b, i1) ==
                 IF b.res # "Some"
                 THEN [it |-> i1, res |-> b.res, batch |-> <<>>, mismatch |-> FALSE,
                       f |-> b.f]
                 ELSE Decompressed(b, i1, decompress(cfg.compression, b.bytes))
             WithBuffer(b) == Read(b, [i EXCEPT !.tempfile = b.r])
         IN WithBuffer(BatchReader_read_batch(i.tempfile, f))

\* Vec::pop on a non-empty vector
PopRest(s) == SubSeq(s, 1, Len(s) - 1)
PopItem(s) == s[Len(s)]

\* SwapVecIter::next_in_batch.  res is "None", "Some" (with item) or the error
next_in_batch(i, cfg, f) ==
    IF i.current_batch_rev # <<>>
    THEN [it |-> [i EXCEPT !.current_batch_rev = PopRest(@)], res |-> "Some",
          item |-> PopItem(i.current_batch_rev), mismatch |-> FALSE, f |-> f]
    ELSE LET Staged(b, new_batch) ==
                 IF new_batch # <<>>
                 THEN [it |-> [b.it EXCEPT !.current_batch_rev = PopRest(new_batch)],
                       res |-> "Some", item |-> PopItem(new_batch),
                       mismatch |-> b.mismatch, f |-> b.f]
                 ELSE [it |-> [b.it EXCEPT !.current_batch_rev = <<>>],
                       res |-> "None", item |-> 0, mismatch |-> b.mismatch, f |-> b.f]
             Read(b) ==
                 IF b.res = "Some" THEN Staged(b, Reverse(b.batch))
                 ELSE [it |-> b.it, res |-> b.res, item |-> 0, mismatch |-> b.mismatch,
                       f |-> b.f]
         IN Read(read_batch(i, cfg, f))

\* impl Iterator for SwapVecIter: next
next(i, cfg, f) ==
    IF i.current_batch_rev # <<>>
    THEN [it |-> [i EXCEPT !.current_batch_rev = PopRest(@)],
          item |-> OkItem(PopItem(i.current_batch_rev)), mismatch |-> FALSE, f |-> f]
    ELSE LET FromTail(n, e) ==
                 [it |-> [n.it EXCEPT !.last_elements_index = @ + 1],
                  item |-> IF e.some THEN OkItem(e.v) ELSE EndItem,
                  mismatch |-> n.mismatch, f |-> n.f]
             Match(n) ==
                 IF n.res = "Some"
                 THEN [it |-> n.it, item |-> OkItem(n.item), mismatch |-> n.mismatch,
                       f |-> n.f]
                 ELSE IF n.res = "None"
                 THEN FromTail(n, get(n.it.last_elements, n.it.last_elements_index))
                 ELSE [it |-> n.it, item |-> ErrItem(n.res), mismatch |-> n.mismatch,
                       f |-> n.f]
         IN Match(next_in_batch(i, cfg, f))

\* mutant: a failed rewind is not remembered
reset_drops_error(i, f) ==
    LET i1 == [i EXCEPT !.current_batch_rev = <<>>, !.last_elements_index = 0]
        Rewound(r) == [it |-> [i1 EXCEPT !.tempfile = r.r], f |-> r.f]
    IN IF ~i.tempfile.some THEN [it |-> i1, f |-> f]
       ELSE Rewound(BatchReader_reset(i.tempfile, f))

\* mutant: the staging list is not cleared
reset_keeps_staging(i, f) ==
    LET i1 == [i EXCEPT !.last_elements_index = 0]
        Rewound(r) ==
            IF r.ok THEN [it |-> [i1 EXCEPT !.tempfile = r.r], f |-> r.f]
            ELSE [it |-> [i1 EXCEPT !.tempfile = r.r,
                                    !.new_error = [some |-> TRUE, kind |-> r.kind]],
                  f |-> r.f]
    IN IF ~i.tempfile.some THEN [it |-> i1, f |-> f]
       ELSE Rewound(BatchReader_reset(i.tempfile, f))

\* SwapVecIter::reset
reset(i, f) ==
    LET i1 == [i EXCEPT !.current_batch_rev = <<>>, !.last_elements_index = 0]
        Rewound(r) ==
            IF r.ok THEN [it |-> [i1 EXCEPT !.tempfile = r.r], f |-> r.f]
            ELSE [it |-> [i1 EXCEPT !.tempfile = r.r,
                                    !.new_error = [some |-> TRUE, kind |-> r.kind]],
                  f |-> r.f]
    IN IF ~i.tempfile.some THEN [it |-> i1, f |-> f]
       ELSE Rewound(BatchReader_reset(i.tempfile, f))

\* ------------------------------------------------------------------- state
VARIABLES
    phase,      \* "write": the SwapVec is being filled; "iter": into_iter was called
    config,     \* SwapVecConfig
    sv,         \* SwapVec: tempfile, vector (kept as handed over once phase = "iter")
    it,         \* SwapVecIter
    lastRes,    \* result of the last push / consume call
    lastOp,     \* history: the last operation, with what it observed
    pushed,     \* history: every element inserted so far
    yielded,    \* history: the items next() returned since into_iter or the last reset
    prevPass,   \* history: yielded, as it was at the last reset
    resets,     \* history: number of reset() calls
    faults,     \* history: number of injected I/O failures
    corrupted,  \* history: a byte of the backing file was changed
    hist        \* history: lost batches, reader calls, the last batch write

vars == <<phase, config, sv, it, lastRes, lastOp, pushed, yielded, prevPass, resets,
          faults, corrupted, hist>>

\* a consume call performs at most this many I/O operations
ConsumeIoOps == 6 * MaxConsume

FaultInputs(n, kinds) == {NoFault} \cup [at : 1..n, kind : kinds, part : Parts]

\* what the last call did: the batches and the bytes written before it, the
\* outcome of the hash comparison, the injected failure and its kind, whether
\* a batch write failed, the insertions since the previous batch write and the
\* buffer length that write left (gap, left; -1 when unknown), and the outcome
\* and bytes of the BatchReader::read_batch call it made (rd = "" when it made
\* none)
NoOp == [op |-> "none", before |-> 0, bytes_before |-> 0, mismatch |-> FALSE,
         fault |-> FALSE, kind |-> "", wfail |-> FALSE, gap |-> -1, left |-> -1,
         rd |-> "", raw |-> <<>>]

\* lost: the elements of the batches whose write failed, wfails: their number;
\* cfails: the calls in which the creation of the backing file failed;
\* resetFailed: the rewind of the last reset() failed; reads: the
\* BatchReader::read_batch calls since the conversion or the last reset();
\* left: while the container is filled, the buffer length the last batch write
\* left, if only push calls and consume calls that wrote nothing followed it,
\* else -1
NoHist == [lost |-> <<>>, wfails |-> 0, cfails |-> 0, resetFailed |-> FALSE, reads |-> 0,
           left |-> -1]

Start(configs) ==
    /\ phase = "write"
    /\ config \in configs
    /\ sv = [tempfile |-> NoWriter, vector |-> <<>>]
    /\ it = NoIter
    /\ lastRes = "None"
    /\ lastOp = NoOp
    /\ pushed = <<>>
    /\ yielded = <<>>
    /\ prevPass = <<>>
    /\ resets = 0
    /\ faults = 0
    /\ corrupted = FALSE
    /\ hist = NoHist

Init ==
    Start([batch_size : 0..MaxBatch, swap_after : 0..MaxSwapAfter,
           compression : Compressions])

\* the fault input of a call is either absent or a failure that happens
Injected(f, fAfter) ==
    /\ fAfter.at = 0
    /\ f.at > 0 => faults < MaxFaults /\ ~corrupted
    /\ faults' = faults + (IF f.at > 0 THEN 1 ELSE 0)
    /\ UNCHANGED corrupted

\* the elements inserted are pairwise distinct: the k-th one is k
NewElems(n) == [i \in 1..n |-> Len(pushed) + i]

\* the call failed in write_batch: the file exists and the call returned Err
WriteFailed(r) == r.res # "Ok" /\ r.sv.tempfile.some

\* the call failed in tempfile::tempfile(): Err, and still no file
CreateFailed(r) == r.res # "Ok" /\ ~r.sv.tempfile.some

\* the batch drained by the last flush of a call that started with the buffer
\* all (old buffer and inserted elements) and ended with the buffer rest
LastDrained(all, rest) ==
    SubSeq(all, Len(all) - Len(rest) - config.batch_size + 1, Len(all) - Len(rest))

Wrote(r) == batches_written(r.sv) > batches_written(sv)

PushStep(f) ==
    /\ \E r \in {push(sv, config, NewElems(1)[1], f)} :
         /\ Injected(f, r.f)
         /\ sv' = r.sv
         /\ lastRes' = r.res
         /\ lastOp' = [NoOp EXCEPT !.op = "push", !.before = batches_written(sv),
                                   !.bytes_before = file_size(sv).v,
                                   !.fault = f.at > 0,
                                   !.kind = IF f.at > 0 THEN f.kind ELSE "",
                                   !.wfail = WriteFailed(r),
                                   !.gap = IF Wrote(r) /\ hist.left >= 0
                                           THEN Len(sv.vector) + 1 - hist.left ELSE -1,
                                   !.left = hist.left]
         /\ hist' = [hist EXCEPT
                       !.lost = IF WriteFailed(r)
                                THEN @ \o LastDrained(sv.vector \o NewElems(1), r.sv.vector)
                                ELSE @,
                       !.wfails = IF WriteFailed(r) THEN @ + 1 ELSE @,
                       !.cfails = IF CreateFailed(r) THEN @ + 1 ELSE @,
                       !.left = IF Wrote(r) THEN Len(r.sv.vector) ELSE @]
    /\ pushed' = pushed \o NewElems(1)
    /\ UNCHANGED <<phase, config, it, yielded, prevPass, resets>>

Push(f) ==
    /\ phase = "write"
    /\ Len(pushed) < MaxPush
    /\ PushStep(f)

\* consume(it) with an iterator of n elements; after a failure the elements
\* not yet taken from the iterator are not inserted
Consume(n, f) ==
    /\ phase = "write"
    /\ Len(pushed) + n <= MaxPush
    /\ \E r \in {consume(sv, config, NewElems(n), f)} :
         /\ Injected(f, r.f)
         /\ sv' = r.sv
         /\ lastRes' = r.res
         /\ pushed' = pushed \o SubSeq(NewElems(n), 1, r.taken)
         /\ lastOp' = [NoOp EXCEPT !.op = "consume", !.before = batches_written(sv),
                                   !.bytes_before = file_size(sv).v,
                                   !.fault = f.at > 0,
                                   !.kind = IF f.at > 0 THEN f.kind ELSE "",
                                   !.wfail = WriteFailed(r)]
         /\ hist' = [hist EXCEPT
                       !.lost = IF WriteFailed(r)
                                THEN @ \o LastDrained(sv.vector \o SubSeq(NewElems(n), 1, r.taken),
                                                      r.sv.vector)
                                ELSE @,
                       !.wfails = IF WriteFailed(r) THEN @ + 1 ELSE @,
                       !.cfails = IF CreateFailed(r) THEN @ + 1 ELSE @,
                       !.left = IF Wrote(r) THEN -1 ELSE @]
    /\ UNCHANGED <<phase, config, it, yielded, prevPass, resets>>

IntoIter(f) ==
    /\ phase = "write"
    /\ \E r \in {SwapVecIter_new(sv.tempfile, sv.vector, f)} :
         /\ Injected(f, r.f)
         /\ it' = r.it
    /\ phase' = "iter"
    /\ lastOp' = [NoOp EXCEPT !.op = "into_iter", !.fault = f.at > 0,
                              !.kind = IF f.at > 0 THEN f.kind ELSE ""]
    /\ hist' = [hist EXCEPT !.left = -1]
    /\ UNCHANGED <<config, sv, lastRes, pushed, yielded, prevPass, resets>>

\* next() calls BatchReader::read_batch when the staging list is empty, the
\* reader exists and no error of new() or reset() is pending
ReadsBatch(i) == i.current_batch_rev = <<>> /\ i.tempfile.some /\ ~i.new_error.some

NextCall(f) ==
    /\ phase = "iter"
    /\ Len(yielded) < Len(pushed) + MaxExtraNext
    /\ \E r \in {next(it, config, f)} :
         /\ Injected(f, r.f)
         /\ it' = r.it
         /\ yielded' = Append(yielded, r.item)
         /\ \E b \in {IF ReadsBatch(it) THEN BatchReader_read_batch(it.tempfile, f)
                      ELSE [res |-> "", bytes |-> <<>>]} :
              lastOp' = [NoOp EXCEPT !.op = "next", !.mismatch = r.mismatch,
                                     !.fault = f.at > 0,
                                     !.kind = IF f.at > 0 THEN f.kind ELSE "",
                                     !.rd = b.res, !.raw = b.bytes]
    /\ hist' = [hist EXCEPT !.reads = IF ReadsBatch(it) THEN @ + 1 ELSE @]
    /\ UNCHANGED <<phase, config, sv, lastRes, pushed, prevPass, resets>>

Reset(f) ==
    /\ phase = "iter"
    /\ resets < MaxResets
    /\ \E r \in {reset(it, f)} :
         /\ Injected(f, r.f)
         /\ it' = r.it
    /\ prevPass' = yielded
    /\ yielded' = <<>>
    /\ resets' = resets + 1
    /\ lastOp' = [NoOp EXCEPT !.op = "reset", !.fault = f.at > 0,
                              !.kind = IF f.at > 0 THEN f.kind ELSE ""]
    /\ hist' = [hist EXCEPT !.reads = 0, !.resetFailed = f.at > 0]
    /\ UNCHANGED <<phase, config, sv, lastRes, pushed>>

\* the environment changes one byte of the backing file before replay starts,
\* in a behaviour without any I/O failure
Corrupt(p) ==
    /\ phase = "iter"
    /\ yielded = <<>> /\ resets = 0
    /\ faults = 0 /\ ~corrupted
    /\ it.tempfile.some
    /\ p \in 1..Len(it.tempfile.inner)
    /\ it' = [it EXCEPT !.tempfile.inner[p] = (@ + 1) % 256]
    /\ corrupted' = TRUE
    /\ lastOp' = [NoOp EXCEPT !.op = "corrupt"]
    /\ UNCHANGED <<phase, config, sv, lastRes, pushed, yielded, prevPass, resets, faults,
                   hist>>

Next ==
    \/ \E f \in FaultInputs(3, WriteKinds) : Push(f)
    \/ \E n \in 1..MaxConsume, f \in FaultInputs(ConsumeIoOps, WriteKinds) : Consume(n, f)
    \/ \E f \in FaultInputs(2, ReadKinds) : IntoIter(f)
    \/ \E f \in FaultInputs(1, ReadKinds) : NextCall(f)
    \/ \E f \in FaultInputs(1, ReadKinds) : Reset(f)
    \/ \E p \in 1..((13 + MaxBatch) * MaxPush) : Corrupt(p)

Spec == Init /\ [][Next]_vars

\* ---------------------------------------------------- insertions by push only
\* the container filled by push calls alone, none of which fails, for a wider
\* range of swap_after
InitWrite ==
    Start([batch_size : 0..MaxBatch, swap_after : 0..MaxSwapAfterW,
           compression : Compressions])

PushW ==
    /\ phase = "write"
    /\ Len(pushed) < MaxPushW
    /\ PushStep(NoFault)

NextWrite == PushW

SpecWrite == InitWrite /\ [][NextWrite]_vars

\* ------------------------------------------------------------- properties
NoFailure == faults = 0 /\ ~corrupted

\* the i-th item of a replay of everything inserted
Expected(i) == IF i <= Len(pushed) THEN OkItem(pushed[i]) ELSE EndItem

\* a pass was driven to end-of-sequence; the items up to the first end
Driven(p) == \E i \in 1..Len(p) : p[i] = EndItem
FirstEnd(p) == CHOOSE i \in 1..Len(p) : p[i] = EndItem /\ \A j \in 1..(i - 1) : p[j] # EndItem
UpToEnd(p) == SubSeq(p, 1, FirstEnd(p))
FullReplay == [i \in 1..(Len(pushed) + 1) |-> Expected(i)]

\* C1: with batch_size >= 1 and no I/O failure, the iterator driven without
\* reset yields Ok(e0), ..., Ok(e(N-1)) in insertion order, each once, and
\* then end-of-sequence.
C1_OrderPreserved ==
    (phase = "iter" /\ config.batch_size >= 1 /\ resets = 0 /\ NoFailure)
        => \A i \in 1..Len(yielded) : yielded[i] = Expected(i)

\* a full replay over several persisted batches and a non-empty tail
C1_Witness ==
    /\ phase = "iter" /\ config.batch_size >= 1 /\ resets = 0 /\ NoFailure
    /\ batches_written(sv) >= 2 /\ it.last_elements # <<>>
    /\ Len(pushed) > config.swap_after
    /\ yielded = FullReplay

\* C2: driving the iterator to end-of-sequence, calling reset() and driving it
\* to end-of-sequence again yields the full sequence e0..e(N-1) both times.
C2_ResetIdempotent ==
    (phase = "iter" /\ resets >= 1 /\ NoFailure /\ Driven(prevPass) /\ Driven(yielded))
        => /\ UpToEnd(prevPass) = FullReplay
           /\ UpToEnd(yielded) = UpToEnd(prevPass)

\* two full passes over a container with several persisted batches
C2_Witness ==
    /\ phase = "iter" /\ resets = 1 /\ NoFailure
    /\ Driven(prevPass) /\ Driven(yielded)
    /\ batches_written(sv) >= 2
    /\ config.batch_size >= 1

\* C3: reset() after any number k of next() calls makes the following next()
\* calls yield the whole sequence from position zero.
C3_ResetRestarts ==
    (phase = "iter" /\ resets >= 1 /\ NoFailure)
        => \A i \in 1..Len(yielded) : yielded[i] = Expected(i)

\* reset() in the middle of the first persisted batch, then a full pass
C3_Witness ==
    /\ phase = "iter" /\ resets = 1 /\ NoFailure
    /\ config.batch_size = 2 /\ batches_written(sv) >= 1
    /\ Len(prevPass) = 1
    /\ yielded = FullReplay

\* C4: without I/O failure, written_to_file() is false as long as at most
\* max(swap_after, batch_size) elements were inserted and true from the
\* insertion that brings the count to max(swap_after, batch_size) + 1 on.
C4_ThresholdGating ==
    NoFailure =>
        (written_to_file(sv) <=> Len(pushed) > Max(config.swap_after, config.batch_size))

\* the push that exceeds swap_after > batch_size creates the file
C4_Witness ==
    /\ NoFailure /\ phase = "write" /\ lastOp.op = "push"
    /\ config.swap_after > config.batch_size
    /\ Len(pushed) = config.swap_after + 1
    /\ written_to_file(sv)

\* C5: a next() call that reads a persisted batch whose bytes do not hash to
\* the recorded hash yields the WrongChecksum error.
C5_ChecksumEnforced ==
    (lastOp.op = "next" /\ lastOp.mismatch)
        => yielded[Len(yielded)] = ErrItem("WrongChecksum")

\* the conversion of the store to read mode failed in into_iter
ConversionFailed == phase = "iter" /\ sv.tempfile.some /\ ~it.tempfile.some

\* C6: when the conversion of the store fails in into_iter, the first next()
\* call (which needs a persisted batch) yields an error item.
C6_ConversionErrorSurfaced ==
    (ConversionFailed /\ batches_written(sv) >= 1 /\ resets = 0 /\ yielded # <<>>)
        => yielded[1].tag = "Err"

\* C7: once next() has yielded an Err item, every later next() call without
\* a reset() yields end-of-sequence.
C7_AbortsAfterError ==
    \A i \in 1..Len(yielded) : \A j \in (i + 1)..Len(yielded) :
        yielded[i].tag = "Err" => yielded[j] = EndItem

\* push(e) for each element of a sequence, in order
RECURSIVE PushAll(_, _, _)
PushAll(s, cfg, elements) ==
    IF elements = <<>> THEN s
    ELSE PushAll(push(s, cfg, Head(elements), NoFault).sv, cfg, Tail(elements))

\* C8: a successful consume(seq) leaves the container in the state that
\* push(e) for each element of seq in order leaves it in.
C8_ConsumeEqualsPushes ==
    [][(lastOp'.op = "consume" /\ ~lastOp'.fault)
          => sv' = PushAll(sv, config, SubSeq(pushed', Len(pushed) + 1, Len(pushed')))]_vars

\* C9: one push call writes at most one batch.
C9_PushWritesAtMostOneBatch ==
    lastOp.op = "push" => batches_written(sv) <= lastOp.before + 1

\* a push that wrote a batch while more than batch_size elements stay buffered
C9_Witness ==
    /\ lastOp.op = "push" /\ config.batch_size >= 1
    /\ batches_written(sv) = lastOp.before + 1
    /\ Len(sv.vector) > config.batch_size

WrittenBatch(k) == SubSeq(pushed, (k - 1) * config.batch_size + 1, k * config.batch_size)

\* the k-th block of the backing file, located by the lengths of the index
Block(w, k) ==
    SubSeq(w.inner \o w.buf, SumBytes(SubSeq(w.batch_infos, 1, k - 1)) + 1,
           SumBytes(SubSeq(w.batch_infos, 1, k)))

DecompressesTo(d, bytes) == d.ok /\ d.bytes = bytes

RECURSIVE CompressedBytes(_)
CompressedBytes(k) ==
    IF k = 0 THEN 0
    ELSE Len(compress(config.compression, serialize(WrittenBatch(k)))) + CompressedBytes(k - 1)

\* C13: file_size() is absent exactly when no backing file was created;
\* otherwise, with no I/O failure, it is the sum of the compressed lengths of
\* the batches persisted so far, which is the length of the backing file.
C13_FileSize ==
    /\ file_size(sv).some <=> sv.tempfile # NoWriter
    /\ ~file_size(sv).some => batches_written(sv) = 0
    /\ (NoFailure /\ file_size(sv).some) =>
          /\ file_size(sv).v = CompressedBytes(batches_written(sv))
          /\ file_size(sv).v = Len(sv.tempfile.inner)

\* two Lz4 blocks of one element each: 2 * (4 + 1 + 8 + 1) bytes
C13_Witness ==
    /\ NoFailure /\ config.compression = "Lz4" /\ config.batch_size = 1
    /\ batches_written(sv) = 2
    /\ file_size(sv) = [some |-> TRUE, v |-> 28]

\* the inserted elements without those of the batches whose write failed
Survivors == SelectSeq(pushed, LAMBDA e : \A j \in 1..Len(hist.lost) : hist.lost[j] # e)

\* the i-th item of a replay of the sequence s
ExpectedOf(s, i) == IF i <= Len(s) THEN OkItem(s[i]) ELSE EndItem

\* every injected failure was a failed batch write
OnlyWriteFailures == hist.wfails >= 1 /\ faults = hist.wfails /\ ~corrupted

\* C14: when the write of a batch fails in push or consume, the call returns
\* an error, the batch_size elements of that batch are no longer in the
\* buffer, the buffer keeps the other elements in insertion order, and a
\* later replay yields every other inserted element once, in order, and none
\* of the lost ones.
C14_FailedBatchLostOnce ==
    (OnlyWriteFailures /\ config.batch_size >= 1) =>
        /\ lastOp.wfail => lastRes # "Ok"
        /\ Len(hist.lost) = hist.wfails * config.batch_size
        /\ \A i \in 1..Len(sv.vector) : \A j \in 1..Len(hist.lost) :
              sv.vector[i] # hist.lost[j]
        /\ \A i \in 1..(Len(sv.vector) - 1) : sv.vector[i] < sv.vector[i + 1]
        /\ phase = "iter" => \A i \in 1..Len(yielded) : yielded[i] = ExpectedOf(Survivors, i)

\* C15: a batch write of push or consume that fails because the disk is full
\* returns the OutOfDisk error.
C15_DiskFullIsOutOfDisk ==
    (lastOp.op \in {"push", "consume"} /\ lastOp.wfail /\ lastOp.kind = "StorageFull")
        => lastRes = "OutOfDisk"

\* C16: reset() returns nothing and never fails; when the rewind of the file
\* fails, the error is kept and the first next() call after the reset yields
\* it as an Err item, before any Ok item.
C16_ResetErrorSurfaced ==
    (phase = "iter" /\ hist.resetFailed) =>
        /\ yielded = <<>> => it.new_error.some
        /\ yielded # <<>> => \E k \in ReadKinds : yielded[1] = ErrItem(FromIoError(k))

\* a failed reset() after one item was replayed, then two next() calls
C16_Witness ==
    /\ phase = "iter" /\ hist.resetFailed
    /\ Len(prevPass) >= 1 /\ prevPass[1].tag = "Ok"
    /\ Len(yielded) >= 2 /\ yielded[1].tag = "Err"

\* the batch stored in the k-th block of the backing file
DecodedBatch(w, c, k) ==
    LET Decoded(d) == IF d.ok THEN deserialize(d.bytes) ELSE [ok |-> FALSE, batch |-> <<>>]
    IN Decoded(decompress(c, Block(w, k)))

\* the first k persisted batches, in write order
RECURSIVE Persisted(_, _, _)
Persisted(w, c, k) ==
    IF k = 0 THEN <<>> ELSE Persisted(w, c, k - 1) \o DecodedBatch(w, c, k).batch

\* C17: in every state reached by successful push and consume calls, the
\* persisted batches in write order followed by the buffer are the sequence
\* of all elements inserted so far.
C17_ContainerInvariant ==
    NoFailure =>
        /\ \A k \in 1..batches_written(sv) :
              DecodedBatch(sv.tempfile, config.compression, k).ok
        /\ Persisted(sv.tempfile, config.compression, batches_written(sv)) \o sv.vector
              = pushed

\* after a consume call: two persisted batches and a non-empty buffer
C17_Witness ==
    /\ NoFailure /\ phase = "write" /\ lastOp.op = "consume"
    /\ config.batch_size >= 1 /\ batches_written(sv) >= 2 /\ sv.vector # <<>>
    /\ Persisted(sv.tempfile, config.compression, batches_written(sv))
          = SubSeq(pushed, 1, Len(pushed) - Len(sv.vector))

\* the last call was a push that wrote a batch, the batch write before it was
\* made by a push as well, and no call failed
PushWroteAgain ==
    /\ lastOp.op = "push" /\ lastOp.gap >= 0
    /\ NoFailure /\ config.batch_size >= 1

\* C18 as claimed: for every swap_after, two consecutive batch writes made by
\* push are separated by exactly batch_size insertions.
C18_Original == PushWroteAgain => lastOp.gap = config.batch_size

\* C18 amended: two consecutive batch writes made by push are separated by
\* max(1, batch_size + 1 - L) insertions, where L is the buffer length the
\* earlier write left: by batch_size insertions when it left one element, by
\* a single insertion while it left more than batch_size elements.
C18_SpillCadence ==
    PushWroteAgain =>
        /\ lastOp.left >= 1
        /\ lastOp.gap = Max(1, config.batch_size + 1 - lastOp.left)
        /\ lastOp.left = 1 => lastOp.gap = config.batch_size
        /\ lastOp.left > config.batch_size => lastOp.gap = 1

\* swap_after = 2 * batch_size: the push after the first spill writes again
C18_Witness ==
    /\ PushWroteAgain
    /\ config.batch_size = 2 /\ config.swap_after = 4
    /\ lastOp.left = 3 /\ lastOp.gap = 1
    /\ batches_written(sv) = 2

\* C19: in every state reached by successful insertions, every persisted
\* batch holds exactly batch_size elements and the number of elements
\* inserted is batch_size * batches_written() + the buffer length.
C19_ElementCount ==
    NoFailure =>
        /\ \A k \in 1..batches_written(sv) :
              Len(DecodedBatch(sv.tempfile, config.compression, k).batch) = config.batch_size
        /\ Len(pushed) = config.batch_size * batches_written(sv) + Len(sv.vector)

\* four elements inserted with batch_size 2: one batch and two in the buffer
C19_Witness ==
    /\ NoFailure /\ lastOp.op = "push"
    /\ config.batch_size = 2 /\ batches_written(sv) = 1
    /\ Len(sv.vector) = 2 /\ Len(pushed) = 4

\* C20: with no I/O failure, the i-th BatchReader::read_batch call since the
\* conversion of a writer holding the batches b1..bk, or since the last
\* reset(), returns the bytes of bi for i <= k and end-of-data for i > k.
C20_ReadOrder ==
    (NoFailure /\ lastOp.op = "next" /\ lastOp.rd # "") =>
        IF hist.reads <= batches_written(sv)
        THEN /\ lastOp.rd = "Some"
             /\ lastOp.raw = compress(config.compression, serialize(WrittenBatch(hist.reads)))
        ELSE lastOp.rd = "None" /\ lastOp.raw = <<>>

\* the second read after a reset() that followed two reads returns b2 again
C20_Witness ==
    /\ NoFailure /\ lastOp.op = "next" /\ resets = 1
    /\ config.batch_size >= 1 /\ batches_written(sv) >= 2
    /\ Len(prevPass) >= 2
    /\ hist.reads = 2 /\ lastOp.rd = "Some"
    /\ lastOp.raw = Block(sv.tempfile, 2)

\* a next() call that yields an element of the in-memory tail
YieldsTail ==
    /\ phase = "iter" /\ lastOp'.op = "next"
    /\ it'.last_elements_index = it.last_elements_index + 1
    /\ it.last_elements_index < Len(it.last_elements)

\* persisted batches that no read_batch call has returned yet
UnreadBatches(i) == i.tempfile.some /\ i.tempfile.batch_index < Len(i.tempfile.batch_infos)

\* C21: with no I/O failure and for every configuration, batch_size = 0
\* included, next() yields an element of the in-memory tail only when every
\* persisted batch has been read and the staging list is drained.
C21_TailAfterBatches ==
    [][(YieldsTail /\ NoFailure')
          => ~UnreadBatches(it') /\ it'.current_batch_rev = <<>>]_vars

\* every injected failure was a failed creation of the backing file
OnlyCreateFailures == hist.cfails >= 1 /\ faults = hist.cfails /\ ~corrupted

\* C22: when the creation of the backing file fails in push, the call
\* returns an error, no file exists afterwards and the buffer holds every
\* element inserted so far, the pushed one included, in order; a later push
\* creates the file, and no element is lost or duplicated.
C22_CreateFailureKeepsBuffer ==
    /\ (lastOp.op = "push" /\ lastOp.fault /\ ~lastOp.wfail) =>
          /\ lastRes \in {"MissingPermissions", "Other"}
          /\ ~written_to_file(sv)
          /\ sv.vector = pushed
    /\ OnlyCreateFailures =>
          /\ (lastOp.op = "push" /\ lastRes = "Ok") =>
                (written_to_file(sv) <=>
                    Len(pushed) > Max(config.swap_after, config.batch_size))
          /\ Persisted(sv.tempfile, config.compression, batches_written(sv)) \o sv.vector
                = pushed
          /\ (phase = "iter" /\ config.batch_size >= 1) =>
                \A i \in 1..Len(yielded) : yielded[i] = Expected(i)

\* the push after a failed creation created the file; everything is replayed
C22_Witness ==
    /\ OnlyCreateFailures /\ phase = "iter"
    /\ config.batch_size >= 1 /\ batches_written(sv) >= 1
    /\ yielded = FullReplay

\* once the file exists and the buffer holds at most batch_size elements, no
\* call makes it hold more
StaysWithinBatch ==
    (written_to_file(sv) /\ Len(sv.vector) <= config.batch_size)
        => Len(sv'.vector) <= config.batch_size

\* C23 as claimed: with batch_size >= 1, after every successful push and
\* every successful element step of consume the buffer holds at least 1 and
\* at most max(swap_after, batch_size) elements, and once it has dropped to
\* batch_size or less after the first spill it never exceeds batch_size.
C23_Original ==
    /\ []((config.batch_size >= 1 /\ lastOp.op \in {"push", "consume"} /\ lastRes = "Ok")
            => /\ Len(sv.vector) >= 1
               /\ Len(sv.vector) <= Max(config.swap_after, config.batch_size))
    /\ [][config.batch_size >= 1 => StaysWithinBatch]_vars

\* C23 amended: with batch_size >= 1 the buffer holds at least 1 element
\* after the first insertion and at most max(swap_after, batch_size) + k
\* elements, where k is the number of calls in which the creation of the
\* backing file failed (k = 0: the claimed bound); once the file exists and
\* the buffer holds batch_size elements or less it never exceeds batch_size.
C23_MemoryBound ==
    /\ [](config.batch_size >= 1
            => /\ pushed # <<>> => Len(sv.vector) >= 1
               /\ Len(sv.vector) <= Max(config.swap_after, config.batch_size) + hist.cfails)
    /\ [][config.batch_size >= 1 => StaysWithinBatch]_vars

\* after the first spill a push fills the buffer to batch_size = 2, the bound
C23_Witness ==
    /\ NoFailure /\ lastOp.op = "push" /\ lastRes = "Ok"
    /\ config.batch_size = 2 /\ lastOp.before = 1 /\ batches_written(sv) = 1
    /\ Len(sv.vector) = Max(config.swap_after, config.batch_size)

\* C24: when write_batch fails in a push call (in write_all or in flush),
\* batch_count() and bytes_written() are what they were before the call, and
\* the index never describes more bytes than the backing file holds.
C24_IndexOnlyWrittenBatches ==
    /\ (lastOp.op = "push" /\ lastOp.wfail) =>
          /\ batches_written(sv) = lastOp.before
          /\ file_size(sv).v = lastOp.bytes_before
    /\ sv.tempfile.some => bytes_written(sv.tempfile) <= Len(sv.tempfile.inner)
====
